---- MODULE Spec2Model ----
(***************************************************************************)
(* A model of the PDF question-answering chatbot: the retrieval pipeline   *)
(* of PDF.py and the two Streamlit front ends, Streamlit.py and App.py.    *)
(* One rerun of a front-end script is one step.                            *)
(*                                                                         *)
(* Conventions.  A Python text is a sequence of one-character strings.     *)
(* An optional value is a sequence of length at most one: None is << >>    *)
(* and a present value x is <<x>>.                                          *)
(***************************************************************************)
EXTENDS Integers, Sequences, FiniteSets, TLC

\* ---------------------------------------------------------------- bounds
MaxPages == 6        \* pages of the longest document (more chunks than k)
MaxMessages == 3     \* entries of the chat history
MaxChunks == 8       \* chunks handed to generate_embeddings run alone
MaxBatch == 4        \* its batch_size
MaxExpectedLen == 5  \* characters of expected_text for compute_accuracy run alone
MaxAnswerLen == 3    \* characters of its answer

\* ------------------------------------------------------ program constants
BATCH_SIZE == 40
K_DEFAULT == 5
SCORE_THRESHOLD_TENTHS == 5
SNIPPET_LEN == 100

\* ---------------------------------------------------------------- values
None == << >>
Some(x) == <<x>>
Val(o) == o[1]

Min(a, b) == IF a <= b THEN a ELSE b

\* The element of a one-element set; {F(x) : x \in {e}} computes e once.
The(S) == CHOOSE x \in S : TRUE

Whitespace == {" ", "\n"}

\* ------------------------------------------------------------ text (str)
\* str.split() with no argument: the maximal runs of non-whitespace
\* characters, in order; `cur` is the word being read.
RECURSIVE SplitFrom(_, _, _)
SplitFrom(text, i, cur) ==
    IF i > Len(text)
    THEN IF cur = << >> THEN << >> ELSE <<cur>>
    ELSE IF text[i] \in Whitespace
         THEN (IF cur = << >> THEN << >> ELSE <<cur>>) \o SplitFrom(text, i + 1, << >>)
         ELSE SplitFrom(text, i + 1, Append(cur, text[i]))

Split(text) == SplitFrom(text, 1, << >>)

\* set(text.split())
WordSet(text) == {Split(text)[i] : i \in 1..Len(Split(text))}

\* text[:n]
Take(text, n) == SubSeq(text, 1, Min(n, Len(text)))

\* str.strip(): leading and trailing whitespace removed
RECURSIVE LStrip(_)
LStrip(text) ==
    IF text # << >> /\ Head(text) \in Whitespace THEN LStrip(Tail(text)) ELSE text

RECURSIVE RStrip(_)
RStrip(text) ==
    IF text # << >> /\ text[Len(text)] \in Whitespace
    THEN RStrip(SubSeq(text, 1, Len(text) - 1))
    ELSE text

Strip(text) == RStrip(LStrip(text))

\* str.replace("\n", " ")
ReplaceNewlines(text) == [i \in 1..Len(text) |-> IF text[i] = "\n" THEN " " ELSE text[i]]

\* "\n".join(texts)
RECURSIVE JoinFrom(_, _)
JoinFrom(texts, i) ==
    IF i > Len(texts) THEN << >>
    ELSE IF i = Len(texts) THEN texts[i]
    ELSE texts[i] \o <<"\n">> \o JoinFrom(texts, i + 1)

JoinLines(texts) == JoinFrom(texts, 1)

RECURSIVE FlattenFrom(_, _)
FlattenFrom(seqs, i) ==
    IF i > Len(seqs) THEN << >> ELSE seqs[i] \o FlattenFrom(seqs, i + 1)

Flatten(seqs) == FlattenFrom(seqs, 1)

\* All sequences over S of length at most n.
SeqsUpTo(S, n) == UNION {[1..m -> S] : m \in 0..n}

\* ------------------------------------------------------ uploaded files
\* The bytes of a PDF file: whether a PDF reader can parse them, and the
\* text of each page.  Every page text here is far shorter than
\* CHUNK_SIZE_DEFAULT, so the splitter never cuts a page.
CorruptBytes == [ok |-> FALSE, pages |-> << >>]

PageText(i) == IF i % 2 = 1 THEN <<"a">> ELSE <<"a", "\n", "b", " ">>

DocBytes(n) == [ok |-> TRUE, pages |-> [i \in 1..n |-> PageText(i)]]

DocSizes == {0, 1, MaxPages}

Contents == {CorruptBytes} \cup {DocBytes(n) : n \in DocSizes}

PdfFiles == {[name |-> "doc.pdf", bytes |-> b] : b \in Contents}

ExpectedFiles ==
    {[name |-> "expected.pdf", bytes |-> b] : b \in {CorruptBytes, DocBytes(0), DocBytes(2)}}

PDF_PATH == [name |-> "PDF_PATH", bytes |-> DocBytes(MaxPages)]

Queries == {<< >>, <<"a">>}

\* What the hosted chat model may answer.
Answers == {<<"a">>, <<"b", " ", "a">>}

Summaries == {<<"S">>}

\* time.time() - start_time, to the second
ProcTimes == {1, 2}

\* hashlib.sha256(file_bytes).hexdigest(): a digest of the bytes alone
Sha256(bytes) == [sha256 |-> bytes]

\* ------------------------------------------------------------- PDF.py
\* PyPDFLoader(path).load(): one document per page; raises on bytes that
\* are no PDF.  The result is None when it raises.
load_pdf(file) ==
    IF file.bytes.ok
    THEN Some([i \in 1..Len(file.bytes.pages) |->
                 [page_content |-> file.bytes.pages[i], source |-> file.name, page |-> i - 1]])
    ELSE None

\* RecursiveCharacterTextSplitter.split_documents on pages shorter than the
\* chunk size: one stripped chunk per page that holds text, metadata kept.
RECURSIVE SplitDocsFrom(_, _)
SplitDocsFrom(pdf_content, i) ==
    IF i > Len(pdf_content) THEN << >>
    ELSE LET d == pdf_content[i]
             t == Strip(d.page_content)
         IN (IF Len(t) = 0 THEN << >> ELSE <<[d EXCEPT !.page_content = t]>>)
            \o SplitDocsFrom(pdf_content, i + 1)

split_text(pdf_content) == SplitDocsFrom(pdf_content, 1)

\* FAISS.from_documents(batch): a new index holding the batch
FAISS_from_documents(batch_chunks) == [docs |-> batch_chunks]

\* vector_db.add_documents(batch): the same index, the batch appended
add_documents(vdb, batch_chunks) == [vdb EXCEPT !.docs = @ \o batch_chunks]

\* chunks[i:i + batch_size], i counted from 0
Slice(chunks, i, batch_size) == SubSeq(chunks, i + 1, Min(i + batch_size, Len(chunks)))

\* EmbedBatch with `first` never cleared: every batch creates a new index.
EmbedBatchAlwaysCreates(st, chunks, batch_size) ==
    LET batch_chunks == Slice(chunks, st.i, batch_size)
    IN [i |-> st.i + batch_size,
        vector_db |-> Some(FAISS_from_documents(batch_chunks)),
        first |-> TRUE,
        sleeps |-> st.sleeps + 1,
        batches |-> Append(st.batches, [created |-> st.first, chunks |-> batch_chunks])]

\* One iteration of the loop of generate_embeddings, on the loop state
\* [i, vector_db, first, sleeps, batches]; batches records each batch handed
\* to the index and sleeps counts the time.sleep(20) calls.
EmbedBatch(st, chunks, batch_size) ==
    LET batch_chunks == Slice(chunks, st.i, batch_size)
    IN [i |-> st.i + batch_size,
        vector_db |-> IF st.first
                      THEN Some(FAISS_from_documents(batch_chunks))
                      ELSE Some(add_documents(Val(st.vector_db), batch_chunks)),
        first |-> FALSE,
        sleeps |-> st.sleeps + 1,
        batches |-> Append(st.batches, [created |-> st.first, chunks |-> batch_chunks])]

EmbedStart == [i |-> 0, vector_db |-> None, first |-> TRUE, sleeps |-> 0, batches |-> << >>]

\* range(0, len(chunks), batch_size) has a next element
EmbedMore(st, chunks) == st.i < Len(chunks)

RECURSIVE EmbedLoop(_, _, _)
EmbedLoop(st, chunks, batch_size) ==
    IF EmbedMore(st, chunks)
    THEN The({EmbedLoop(nxt, chunks, batch_size) : nxt \in {EmbedBatch(st, chunks, batch_size)}})
    ELSE st

generate_embeddings(chunks, batch_size) == EmbedLoop(EmbedStart, chunks, batch_size).vector_db

\* The similarity of a query and a chunk, in tenths: a stand-in for the
\* embedding model's cosine similarity, fixed for a given pair of texts.
Count(text, S) == Cardinality({i \in 1..Len(text) : text[i] \in S})

Score(query, text) ==
    LET n == Len(text) - Count(text, Whitespace)
    IN IF n = 0 \/ query = << >> THEN 0 ELSE (10 * Count(text, {query[1]})) \div n

\* retrieve_documents with k not handed to the retriever.
retrieve_documentsNoK(vdb, query, k, score_threshold) ==
    LET docs == vdb.docs
        score == [i \in 1..Len(docs) |-> Score(query, docs[i].page_content)]
        ok == {i \in 1..Len(docs) : score[i] >= score_threshold}
        rank == [i \in ok |->
                   1 + Cardinality({j \in ok : \/ score[j] > score[i]
                                               \/ score[j] = score[i] /\ j < i})]
    IN [r \in 1..Cardinality(ok) |-> docs[CHOOSE i \in ok : rank[i] = r]]

\* retriever.invoke(query) with search_type similarity_score_threshold: the
\* k best chunks among those whose score reaches the threshold, best first
\* (equal scores: the earlier chunk first).
retrieve_documents(vdb, query, k, score_threshold) ==
    LET docs == vdb.docs
        score == [i \in 1..Len(docs) |-> Score(query, docs[i].page_content)]
        ok == {i \in 1..Len(docs) : score[i] >= score_threshold}
        rank == [i \in ok |->
                   1 + Cardinality({j \in ok : \/ score[j] > score[i]
                                               \/ score[j] = score[i] /\ j < i})]
    IN [r \in 1..Min(k, Cardinality(ok)) |-> docs[CHOOSE i \in ok : rank[i] = r]]

\* An external call of one rerun, as it is logged in `calls`.
Call(op, args) == [op |-> op, args |-> args]

\* pdf_ingestion(pdf_file): load, split, embed.  The result carries the
\* calls made and whether an exception left the function; embed_ok is
\* whether the embedding service answers (it is asked once per batch).
pdf_ingestion(pdf_file, embed_ok) ==
    LET file == IF pdf_file # None THEN Val(pdf_file) ELSE PDF_PATH
        pdf_content == load_pdf(file)
        chunks == split_text(Val(pdf_content))
    IN IF pdf_content = None
       THEN [raised |-> TRUE, calls |-> <<Call("load", << >>)>>,
             vector_db |-> None, chunks |-> << >>]
       ELSE IF chunks # << >> /\ ~embed_ok
       THEN [raised |-> TRUE,
             calls |-> <<Call("load", << >>), Call("split", << >>), Call("embed", << >>)>>,
             vector_db |-> None, chunks |-> << >>]
       ELSE [raised |-> FALSE,
             calls |-> <<Call("load", << >>), Call("split", << >>), Call("embed", << >>)>>,
             vector_db |-> generate_embeddings(chunks, BATCH_SIZE), chunks |-> chunks]

\* ------------------------------------------ compute_accuracy (both UIs)
\* Round2 cutting the digits after the second instead of rounding.
Round2Truncating(n, d) == (100 * n) \div d

\* round(x, 2) of the fraction n/d, in hundredths: to nearest, ties to even
Round2(n, d) ==
    LET q == (100 * n) \div d
        r == (100 * n) % d
    IN IF 2 * r < d THEN q
       ELSE IF 2 * r > d THEN q + 1
       ELSE IF q % 2 = 0 THEN q ELSE q + 1

\* The value returned, in hundredths of a percent; is_float tells the int 0
\* of the early return from the rounded float.
compute_accuracy(answer, expected_text) ==
    LET answer_words == WordSet(answer)
        expected_words == WordSet(expected_text)
        common_words == answer_words \cap expected_words
    IN IF expected_words = {}
       THEN [hundredths |-> 0, is_float |-> FALSE]
       ELSE [hundredths |-> Round2(Cardinality(common_words) * 100, Cardinality(expected_words)),
             is_float |-> TRUE]

\* f"{accuracy}": an int as its digits, a float with at least one decimal
FormatAccuracy(acc) ==
    IF ~acc.is_float THEN <<ToString(acc.hundredths)>>
    ELSE LET whole == acc.hundredths \div 100
             frac == acc.hundredths % 100
         IN IF frac % 10 = 0
            THEN <<ToString(whole), ".", ToString(frac \div 10)>>
            ELSE <<ToString(whole), ".", ToString(frac \div 10), ToString(frac % 10)>>

AccuracyLabel == "Accuracy compared to expected response: "

\* if st.session_state.expected_text: answer += f"\n\nAccuracy ...: {accuracy}%"
AnswerWithAccuracy(answer, expected_text) ==
    IF expected_text # << >>
    THEN answer \o <<"\n", "\n", AccuracyLabel>>
                \o FormatAccuracy(compute_accuracy(answer, expected_text)) \o <<"%">>
    ELSE answer

\* ------------------------------------------------------------ the state
VARIABLES
    script,             \* which front end runs: "Streamlit" or "App"
    pdf_file,           \* the file in the pdf_upload widget
    expected_pdf,       \* the file in the expected_pdf widget
    user_query,         \* the text in the chat_input widget
    vector_db,          \* st.session_state.vector_db
    chunks,             \* st.session_state.chunks
    messages,           \* st.session_state.messages
    expected_text,      \* st.session_state.expected_text
    uploaded_pdf_hash,  \* st.session_state.uploaded_pdf_hash (Streamlit.py)
    summary,            \* st.session_state.summary (Streamlit.py)
    processing_time,    \* st.session_state.processing_time (Streamlit.py)
    ui,                 \* the notices the last rerun showed
    calls,              \* the external calls the last rerun made, in order
    raised,             \* the last rerun ended in an uncaught exception
    rendered,           \* the widgets the last rerun put on the page
    last,               \* what triggered the last rerun
    emb,                \* generate_embeddings run alone: its input and loop state
    acc                 \* compute_accuracy run alone: its input and result

vars == <<script, pdf_file, expected_pdf, user_query, vector_db, chunks, messages,
          expected_text, uploaded_pdf_hash, summary, processing_time, ui, calls,
          raised, rendered, last, emb, acc>>

widgets == <<pdf_file, expected_pdf, user_query>>
session == <<vector_db, chunks, messages, expected_text, uploaded_pdf_hash,
             summary, processing_time>>
output == <<ui, calls, raised, rendered, last>>

\* The session at the start of a rerun: nothing shown or called yet.
Begin ==
    [vector_db |-> vector_db, chunks |-> chunks, messages |-> messages,
     expected_text |-> expected_text, uploaded_pdf_hash |-> uploaded_pdf_hash,
     summary |-> summary, processing_time |-> processing_time,
     ui |-> << >>, calls |-> << >>, raised |-> FALSE, rendered |-> {}, rerun |-> FALSE]

\* What the outside world does during one rerun.
Outcomes ==
    [embed_ok : BOOLEAN, summary : {None} \cup {Some(x) : x \in Summaries},
     time : ProcTimes, retrieve_ok : BOOLEAN, answer : {None} \cup {Some(x) : x \in Answers}]

Quiet == [embed_ok |-> TRUE, summary |-> Some(<<"S">>), time |-> 1,
          retrieve_ok |-> TRUE, answer |-> Some(<<"a">>)]

\* The outcomes that differ in what an ingestion, or a question, can meet.
ProcessOutcomes ==
    {o \in Outcomes : o.retrieve_ok = Quiet.retrieve_ok /\ o.answer = Quiet.answer}

AskOutcomes ==
    {o \in Outcomes : /\ o.embed_ok = Quiet.embed_ok /\ o.summary = Quiet.summary
                      /\ o.time = Quiet.time}

Show(s, notice) == [s EXCEPT !.ui = Append(@, notice)]
Render(s, ws) == [s EXCEPT !.rendered = @ \cup ws]

\* ---------------------------------------- expected-responses upload
\* Streamlit.py 129-140, App.py 65-77: parse inside try/except Exception.
SidebarExpected(s, ef) ==
    IF s.raised THEN s
    ELSE LET s0 == Render(s, {"expected_pdf"})
         IN IF ef = None THEN s0
            ELSE LET s1 == [s0 EXCEPT !.calls = Append(@, Call("PdfReader", << >>))]
                     bytes == Val(ef).bytes
                 IN IF bytes.ok
                    THEN Show([s1 EXCEPT !.expected_text =
                                  Flatten([i \in 1..Len(bytes.pages) |-> bytes.pages[i] \o <<"\n">>])],
                              "Expected responses loaded.")
                    ELSE Show(s1, "Error processing expected PDF")

\* ---------------------------------------------- Streamlit.py 110-126
\* The body of the Process button: ingestion of a temporary copy, then the
\* session fields, then the summary.
ProcessStreamlit(s, file, pdf_hash, o) ==
    LET tmp == [name |-> "tmp.pdf", bytes |-> file.bytes]
        r == pdf_ingestion(Some(tmp), o.embed_ok)
        s1 == [s EXCEPT !.calls = @ \o r.calls]
        s2 == [s1 EXCEPT !.vector_db = r.vector_db,
                         !.chunks = Some(r.chunks),
                         !.uploaded_pdf_hash = Some(pdf_hash),
                         !.calls = Append(@, Call("summary", << >>))]
    IN IF r.raised THEN [s1 EXCEPT !.raised = TRUE]
       ELSE IF o.summary = None THEN [s2 EXCEPT !.raised = TRUE]
       ELSE Show([s2 EXCEPT !.summary = o.summary,
                            !.processing_time = Some(o.time)],
                 "PDF processed, indexed, and summarized!")

\* SameFile without the test that an index is stored.
SameFileHashOnly(s, pdf_hash) == s.uploaded_pdf_hash = Some(pdf_hash)

\* SameFile with the hash test inverted.
SameFileHashDiffers(s, pdf_hash) == s.uploaded_pdf_hash # Some(pdf_hash) /\ s.vector_db # None

\* Streamlit.py 105: the upload is the file whose index the session holds
SameFile(s, pdf_hash) == s.uploaded_pdf_hash = Some(pdf_hash) /\ s.vector_db # None

\* Streamlit.py 98-126: the document upload in the sidebar
SidebarPdf(s, pf, clicked, o) ==
    IF s.raised THEN s
    ELSE LET s0 == Render(s, {"pdf_upload"})
         IN IF pf = None THEN s0
            ELSE LET pdf_hash == Sha256(Val(pf).bytes)
                     s1 == [s0 EXCEPT !.calls = Append(@, Call("sha256", << >>))]
                 IN IF SameFile(s, pdf_hash)
                    THEN Show(s1, "Same file detected. Reusing existing index.")
                    ELSE LET s2 == Render(s1, {"process_pdf"})
                         IN IF clicked THEN ProcessStreamlit(s2, Val(pf), pdf_hash, o)
                            ELSE s2

\* ---------------------------------------------------- App.py 81-94
MainPdf(s, pf, clicked, o) ==
    IF s.raised THEN s
    ELSE LET s0 == Render(s, {"pdf_upload"})
         IN IF pf = None THEN s0
            ELSE LET s1 == Render(s0, {"process_pdf"})
                     r == pdf_ingestion(pf, o.embed_ok)
                     s2 == [s1 EXCEPT !.calls = @ \o r.calls]
                     s3 == [s2 EXCEPT !.vector_db = r.vector_db,
                                      !.chunks = Some(r.chunks),
                                      !.calls = Append(@, Call("summary", << >>))]
                 IN IF ~clicked THEN s1
                    ELSE IF r.raised THEN [s2 EXCEPT !.raised = TRUE]
                    ELSE IF o.summary = None THEN [s3 EXCEPT !.raised = TRUE]
                    ELSE Show(s3, "PDF processed, indexed, and summarized!")

\* App.py 61-63
ClearHistory(s, clicked) ==
    IF s.raised THEN s
    ELSE LET s0 == Render(s, {"clear"})
         IN IF clicked THEN Show([s0 EXCEPT !.messages = << >>], "Chat history cleared!")
            ELSE s0

\* Streamlit.py 146-167: the history is shown, or a note that there is none
ChatDisplay(s) ==
    IF s.raised THEN s
    ELSE IF s.messages = << >>
    THEN Show(s, "No conversation yet. Start by asking a question below.")
    ELSE s

\* One source string per retrieved document: f"{src}: {snippet}..."
SourceOf(doc) ==
    [src |-> doc.source,
     snippet |-> ReplaceNewlines(Strip(Take(doc.page_content, SNIPPET_LEN)))]

\* AskQuestion asking the model before the retrieval.
AskQuestionModelFirst(s, query, o) ==
    LET s1 == [s EXCEPT !.messages = Append(@, [role |-> "User", content |-> query]),
                        !.calls = Append(@, Call("llm", <<<< >>, query>>))]
        Answered(retrieved_docs) ==
            LET context == JoinLines([i \in 1..Len(retrieved_docs) |->
                                          retrieved_docs[i].page_content])
                s2 == [s1 EXCEPT !.calls = @ \o <<Call("retrieve", <<query>>),
                                                   Call("concat", <<context>>)>>]
                sources == [i \in 1..Len(retrieved_docs) |-> SourceOf(retrieved_docs[i])]
                answer == AnswerWithAccuracy(Val(o.answer), s.expected_text)
            IN [s2 EXCEPT !.messages = Append(@, [role |-> "Bot", content |-> answer,
                                                  sources |-> sources]),
                          !.calls = Append(@, Call("append", << >>)),
                          !.rerun = TRUE]
    IN IF o.answer = None \/ ~o.retrieve_ok THEN [s1 EXCEPT !.raised = TRUE]
       ELSE The({Answered(docs) :
                   docs \in {retrieve_documents(Val(s.vector_db), query, K_DEFAULT,
                                                SCORE_THRESHOLD_TENTHS)}})

\* ------------------------- Streamlit.py 179-206, App.py 120-153
\* An accepted question: the user entry, retrieval, the context, the model's
\* answer, the sources, the accuracy, the bot entry, then a rerun.
AskQuestion(s, query, o) ==
    LET s1 == [s EXCEPT !.messages = Append(@, [role |-> "User", content |-> query]),
                        !.calls = Append(@, Call("retrieve", <<query>>))]
        Answered(retrieved_docs) ==
            LET context == JoinLines([i \in 1..Len(retrieved_docs) |->
                                          retrieved_docs[i].page_content])
                s2 == [s1 EXCEPT !.calls = @ \o <<Call("concat", <<context>>),
                                                   Call("llm", <<context, query>>)>>]
                sources == [i \in 1..Len(retrieved_docs) |-> SourceOf(retrieved_docs[i])]
                answer == AnswerWithAccuracy(Val(o.answer), s.expected_text)
            IN IF o.answer = None THEN [s2 EXCEPT !.raised = TRUE]
               ELSE [s2 EXCEPT !.messages = Append(@, [role |-> "Bot", content |-> answer,
                                                       sources |-> sources]),
                               !.calls = Append(@, Call("append", << >>)),
                               !.rerun = TRUE]
    IN IF ~o.retrieve_ok THEN [s1 EXCEPT !.raised = TRUE]
       ELSE The({Answered(docs) :
                   docs \in {retrieve_documents(Val(s.vector_db), query, K_DEFAULT,
                                                SCORE_THRESHOLD_TENTHS)}})

\* ChatInputStreamlit with the user entry appended before the index test.
ChatInputStreamlitAppendsFirst(s, query, clicked, o) ==
    IF s.raised THEN s
    ELSE LET s0 == Render(s, {"chat_input", "ask"})
             s1 == [s0 EXCEPT !.messages = Append(@, [role |-> "User", content |-> query])]
         IN IF ~clicked THEN s0
            ELSE IF query = << >> THEN Show(s0, "Please enter a query to proceed.")
            ELSE IF s.vector_db = None
            THEN Show(s1, "Please upload and process a PDF first.")
            ELSE AskQuestion(s0, query, o)

\* Streamlit.py 170-207
ChatInputStreamlit(s, query, clicked, o) ==
    IF s.raised THEN s
    ELSE LET s0 == Render(s, {"chat_input", "ask"})
         IN IF ~clicked THEN s0
            ELSE IF query = << >> THEN Show(s0, "Please enter a query to proceed.")
            ELSE IF s.vector_db = None
            THEN Show(s0, "Please upload and process a PDF first.")
            ELSE AskQuestion(s0, query, o)

\* App.py 115-157
ChatInputApp(s, query, clicked, o) ==
    IF s.raised THEN s
    ELSE LET s0 == Render(s, {"chat_input", "ask"})
             s1 == IF clicked /\ query # << >>
                   THEN IF s.vector_db = None
                        THEN Show(s0, "Please upload and process a PDF first.")
                        ELSE AskQuestion(s0, query, o)
                   ELSE s0
         IN IF s1.raised \/ s1.rerun THEN s1
            ELSE IF query = << >> THEN Show(s1, "Please enter a query to proceed.")
            ELSE s1

\* One pass of a script from top to bottom; click names the button pressed.
StreamlitPass(s, pf, ef, query, click, o) ==
    The({ChatInputStreamlit(s3, query, click = "ask", o) :
           s3 \in {ChatDisplay(s2) :
             s2 \in {SidebarExpected(s1, ef) :
               s1 \in {SidebarPdf(s0, pf, click = "process_pdf", o) : s0 \in {s}}}}})

AppPass(s, pf, ef, query, click, o) ==
    The({ChatInputApp(s3, query, click = "ask", o) :
           s3 \in {MainPdf(s2, pf, click = "process_pdf", o) :
             s2 \in {SidebarExpected(s1, ef) :
               s1 \in {ClearHistory(s0, click = "clear") : s0 \in {s}}}}})

Pass(sc, s, pf, ef, query, click, o) ==
    IF sc = "Streamlit" THEN StreamlitPass(s, pf, ef, query, click, o)
    ELSE AppPass(s, pf, ef, query, click, o)

\* A rerun: one pass and, when it ended in st.experimental_rerun(), a second
\* pass with no button pressed, whose page replaces the first one's.
Rerun(sc, s, pf, ef, query, click, o) ==
    The({(IF r.rerun
          THEN Pass(sc, [r EXCEPT !.ui = << >>, !.rendered = {}, !.rerun = FALSE],
                    pf, ef, query, "none", o)
          ELSE r) : r \in {Pass(sc, s, pf, ef, query, click, o)}})

\* The state a rerun leaves.
Commit(r, trigger) ==
    /\ vector_db' = r.vector_db
    /\ chunks' = r.chunks
    /\ messages' = r.messages
    /\ expected_text' = r.expected_text
    /\ uploaded_pdf_hash' = r.uploaded_pdf_hash
    /\ summary' = r.summary
    /\ processing_time' = r.processing_time
    /\ ui' = r.ui
    /\ calls' = r.calls
    /\ raised' = r.raised
    /\ rendered' = r.rendered
    /\ last' = trigger
    /\ UNCHANGED <<script, emb, acc>>

\* --------------------------------------------------------- the actions
UploadPdf ==
    /\ script \in {"Streamlit", "App"}
    /\ "pdf_upload" \in rendered
    /\ \E f \in {None} \cup {Some(x) : x \in PdfFiles} :
        /\ pdf_file' = f
        /\ UNCHANGED <<expected_pdf, user_query>>
        /\ \E r \in {Rerun(script, Begin, f, expected_pdf, user_query, "none", Quiet)} : Commit(r, "pdf_upload")

UploadExpected ==
    /\ script \in {"Streamlit", "App"}
    /\ "expected_pdf" \in rendered
    /\ \E f \in {None} \cup {Some(x) : x \in ExpectedFiles} :
        /\ expected_pdf' = f
        /\ UNCHANGED <<pdf_file, user_query>>
        /\ \E r \in {Rerun(script, Begin, pdf_file, f, user_query, "none", Quiet)} : Commit(r, "expected_pdf")

EnterQuery ==
    /\ script \in {"Streamlit", "App"}
    /\ "chat_input" \in rendered
    /\ \E q \in Queries :
        /\ user_query' = q
        /\ UNCHANGED <<pdf_file, expected_pdf>>
        /\ \E r \in {Rerun(script, Begin, pdf_file, expected_pdf, q, "none", Quiet)} : Commit(r, "chat_input")

ClickProcess ==
    /\ script \in {"Streamlit", "App"}
    /\ "process_pdf" \in rendered
    /\ \E o \in ProcessOutcomes :
        /\ UNCHANGED widgets
        /\ \E r \in {Rerun(script, Begin, pdf_file, expected_pdf, user_query, "process_pdf", o)} : Commit(r, "process_pdf")

ClickAsk ==
    /\ script \in {"Streamlit", "App"}
    /\ "ask" \in rendered
    /\ Len(messages) + 2 <= MaxMessages
    /\ \E o \in AskOutcomes :
        /\ UNCHANGED widgets
        /\ \E r \in {Rerun(script, Begin, pdf_file, expected_pdf, user_query, "ask", o)} : Commit(r, "ask")

ClickClear ==
    /\ script = "App"
    /\ "clear" \in rendered
    /\ UNCHANGED widgets
    /\ \E r \in {Rerun(script, Begin, pdf_file, expected_pdf, user_query, "clear", Quiet)} : Commit(r, "clear")

\* PDF.py 173-178, query_function: ingestion of PDF_PATH, retrieval, the
\* context, one answer; the session is not touched.
QueryFunction ==
    /\ script = "PDF"
    /\ \E q \in Queries \ {<< >>}, o \in AskOutcomes \cup ProcessOutcomes :
        /\ LET r == pdf_ingestion(None, o.embed_ok)
               retrieved_docs == retrieve_documents(Val(r.vector_db), q, K_DEFAULT,
                                                    SCORE_THRESHOLD_TENTHS)
               context == JoinLines([i \in 1..Len(retrieved_docs) |->
                                         retrieved_docs[i].page_content])
           IN /\ calls' = r.calls \o
                    (IF r.raised THEN << >>
                     ELSE IF r.vector_db = None \/ ~o.retrieve_ok
                     THEN <<Call("retrieve", <<q>>)>>
                     ELSE <<Call("retrieve", <<q>>), Call("concat", <<context>>),
                            Call("llm", <<context, q>>)>>)
              /\ raised' = (r.raised \/ r.vector_db = None \/ ~o.retrieve_ok \/ o.answer = None)
        /\ last' = "query_function"
        /\ ui' = << >>
        /\ UNCHANGED <<widgets, session, rendered, script, emb, acc>>

\* The first run of a script in a fresh session.
FirstRun(sc) ==
    Rerun(sc,
          [vector_db |-> None, chunks |-> None, messages |-> << >>, expected_text |-> << >>,
           uploaded_pdf_hash |-> None, summary |-> None, processing_time |-> None,
           ui |-> << >>, calls |-> << >>, raised |-> FALSE, rendered |-> {}, rerun |-> FALSE],
          None, None, << >>, "none", Quiet)

EmbIdle == [chunks |-> << >>, batch_size |-> 1, st |-> EmbedStart, pc |-> "idle"]
AccIdle == [answer |-> << >>, expected_text |-> << >>, pc |-> "idle",
            result |-> None, content |-> << >>]

SessionInit(sc) ==
    /\ script = sc
    /\ pdf_file = None /\ expected_pdf = None /\ user_query = << >>
    /\ \E r \in {FirstRun(sc)} :
        /\ vector_db = r.vector_db
        /\ chunks = r.chunks
        /\ messages = r.messages
        /\ expected_text = r.expected_text
        /\ uploaded_pdf_hash = r.uploaded_pdf_hash
        /\ summary = r.summary
        /\ processing_time = r.processing_time
        /\ ui = r.ui
        /\ calls = r.calls
        /\ raised = r.raised
        /\ rendered = r.rendered
    /\ last = "start"

\* query_function of PDF.py is an entry point of its own, with no page.
PdfInit ==
    /\ script = "PDF"
    /\ pdf_file = None /\ expected_pdf = None /\ user_query = << >>
    /\ vector_db = None /\ chunks = None /\ messages = << >> /\ expected_text = << >>
    /\ uploaded_pdf_hash = None /\ summary = None /\ processing_time = None
    /\ ui = << >> /\ calls = << >> /\ raised = FALSE /\ rendered = {}
    /\ last = "start"

Init ==
    /\ \/ \E sc \in {"Streamlit", "App"} : SessionInit(sc)
       \/ PdfInit
    /\ emb = EmbIdle
    /\ acc = AccIdle

Next ==
    \/ UploadPdf
    \/ UploadExpected
    \/ EnterQuery
    \/ ClickProcess
    \/ ClickAsk
    \/ ClickClear
    \/ QueryFunction

Spec == Init /\ [][Next]_vars

\* ------------------------------------- generate_embeddings run alone
\* PDF.py 67-85 on a list of n distinct chunks and a batch size, one loop
\* iteration per step.
ChunkList(n) == [i \in 1..n |-> [page_content |-> PageText(i), source |-> "doc.pdf", page |-> i - 1]]

EmbInit ==
    /\ PdfInit
    /\ acc = AccIdle
    /\ \E n \in 0..MaxChunks, b \in 1..MaxBatch :
        emb = [chunks |-> ChunkList(n), batch_size |-> b, st |-> EmbedStart, pc |-> "loop"]

\* for i in range(0, len(chunks), batch_size): one batch, then the sleep
EmbBatchStep ==
    /\ emb.pc = "loop"
    /\ EmbedMore(emb.st, emb.chunks)
    /\ emb' = [emb EXCEPT !.st = EmbedBatch(emb.st, emb.chunks, emb.batch_size)]
    /\ UNCHANGED <<script, widgets, session, output, acc>>

\* return vector_db
EmbReturn ==
    /\ emb.pc = "loop"
    /\ ~EmbedMore(emb.st, emb.chunks)
    /\ emb' = [emb EXCEPT !.pc = "done"]
    /\ UNCHANGED <<script, widgets, session, output, acc>>

EmbNext == EmbBatchStep \/ EmbReturn

SpecEmb == EmbInit /\ [][EmbNext]_vars

\* ---------------------------------------- compute_accuracy run alone
\* Streamlit.py 193-203, App.py 138-149 on an answer and an expected text.
AnswerChars == {"a", "b", " "}
ExpectedChars == {"a", "b", "c", " "}

AccInit ==
    /\ PdfInit
    /\ emb = EmbIdle
    /\ \E a \in SeqsUpTo(AnswerChars, MaxAnswerLen), e \in SeqsUpTo(ExpectedChars, MaxExpectedLen) :
        acc = [answer |-> a, expected_text |-> e, pc |-> "start", result |-> None, content |-> << >>]

AccCompute ==
    /\ acc.pc = "start"
    /\ acc' = [acc EXCEPT !.result = Some(compute_accuracy(acc.answer, acc.expected_text)),
                          !.content = AnswerWithAccuracy(acc.answer, acc.expected_text),
                          !.pc = "done"]
    /\ UNCHANGED <<script, widgets, session, output, emb>>

AccNext == AccCompute

SpecAcc == AccInit /\ [][AccNext]_vars

\* ====================================================== the properties
HasOp(cs, op) == \E i \in 1..Len(cs) : cs[i].op = op

\* The operations of cs that are in S, in order.
OpsIn(cs, S) ==
    LET InS(c) == c.op \in S
        sel == SelectSeq(cs, InS)
    IN [i \in 1..Len(sel) |-> sel[i].op]

IsPrefix(a, b) == Len(a) <= Len(b) /\ \A i \in 1..Len(a) : a[i] = b[i]

ArgsOf(cs, op) == cs[CHOOSE i \in 1..Len(cs) : cs[i].op = op].args

IngestOps == <<"load", "split", "embed", "summary">>
AskOps == <<"retrieve", "concat", "llm", "append">>

\* The indexes a completed pdf_ingestion can return.
IngestedIndexes ==
    {pdf_ingestion(Some([name |-> n, bytes |-> b]), TRUE).vector_db :
        n \in {"doc.pdf", "tmp.pdf"}, b \in {c \in Contents : c.ok}} \ {None}

ContextOf(vdb, query) ==
    LET docs == retrieve_documents(Val(vdb), query, K_DEFAULT, SCORE_THRESHOLD_TENTHS)
    IN JoinLines([i \in 1..Len(docs) |-> docs[i].page_content])

\* The texts the scripts show with st.error.
ErrorNotices == {"Error processing expected PDF", "Please upload and process a PDF first."}

\* C1: an exception raised while parsing an uploaded PDF never leaves the
\* rerun uncaught, and the page shows an error for it, for the document PDF
\* as for the expected-responses PDF.
C1_ParseErrorsCaught ==
    /\ ~(raised /\ calls # << >> /\ calls[Len(calls)].op \in {"load", "PdfReader"})
    /\ (HasOp(calls, "PdfReader") /\ ~Val(expected_pdf).bytes.ok)
          => "Error processing expected PDF" \in {ui[i] : i \in 1..Len(ui)}
    /\ (HasOp(calls, "load") /\ script # "PDF" /\ ~Val(pdf_file).bytes.ok)
          => \E i \in 1..Len(ui) : ui[i] \in ErrorNotices

\* C2: the calls of a rerun come in pipeline order: load, split, embed, then
\* the summary; retrieve, concatenate, one model call on that context and
\* query, then the bot entry.  A model call follows a retrieval on an index
\* that a completed ingestion returned.
C2_PipelineOrder ==
    /\ IsPrefix(OpsIn(calls, {"load", "split", "embed", "summary"}), IngestOps)
    /\ IsPrefix(OpsIn(calls, {"retrieve", "concat", "llm", "append"}), AskOps)
    /\ HasOp(calls, "retrieve") =>
          IF script = "PDF"
          THEN /\ Len(calls) >= 4
               /\ <<calls[1].op, calls[2].op, calls[3].op, calls[4].op>>
                     = <<"load", "split", "embed", "retrieve">>
          ELSE /\ ArgsOf(calls, "retrieve") = <<user_query>>
               /\ ~HasOp(calls, "load")
               /\ vector_db \in IngestedIndexes
    /\ HasOp(calls, "llm") =>
          LET q == ArgsOf(calls, "retrieve")[1]
              vdb == IF script = "PDF" THEN pdf_ingestion(None, TRUE).vector_db ELSE vector_db
          IN /\ ArgsOf(calls, "concat") = <<ContextOf(vdb, q)>>
             /\ ArgsOf(calls, "llm") = <<ContextOf(vdb, q), q>>
    /\ HasOp(calls, "append") =>
          /\ messages # << >>
          /\ messages[Len(messages)].role = "Bot"

C2_Witness ==
    /\ last = "ask" /\ HasOp(calls, "append") /\ ~raised
    /\ Len(vector_db[1].docs) = MaxPages

\* C3 as the spec states it: there is no deduplication, so a rerun on an
\* upload of a PDF always offers the Process button.
C3_NoDeduplication ==
    (last = "pdf_upload" /\ pdf_file # None) => "process_pdf" \in rendered

\* C3 amended: App.py has no deduplication; Streamlit.py offers the
\* ingestion of the uploaded PDF unless its hash is the stored one and an
\* index exists.  A press of Process ingests exactly when the button is
\* offered in that rerun.
C3_DeduplicationOnlyInStreamlit ==
    [][/\ (pdf_file' # None /\ "pdf_upload" \in rendered' /\ script # "PDF") =>
            ("process_pdf" \in rendered'
                <=> ~(/\ script = "Streamlit"
                      /\ uploaded_pdf_hash = Some(Sha256(Val(pdf_file').bytes))
                      /\ vector_db # None))
       /\ (last' = "process_pdf") =>
            (HasOp(calls', "load") <=> "process_pdf" \in rendered')]_vars

C3_Witness ==
    /\ script = "Streamlit" /\ last = "pdf_upload" /\ pdf_file # None
    /\ "process_pdf" \notin rendered

\* C5: a press of Ask with no index or with an empty query leaves the
\* session as it is and calls neither the retriever nor the model; with a
\* query and no index the page shows the error.
C5_RejectedAskChangesNothing ==
    [][(last' = "ask" /\ (vector_db = None \/ user_query = << >>)) =>
          /\ UNCHANGED session
          /\ ~HasOp(calls', "retrieve") /\ ~HasOp(calls', "llm")
          /\ (user_query # << >> =>
                "Please upload and process a PDF first." \in {ui'[i] : i \in 1..Len(ui')})]_vars

C5_Witness ==
    /\ last = "ask" /\ user_query # << >> /\ vector_db = None
    /\ "Please upload and process a PDF first." \in {ui[i] : i \in 1..Len(ui)}

C7_SameFileReusesIndex ==
    [][(/\ script = "Streamlit" /\ pdf_file' # None
        /\ uploaded_pdf_hash = Some(Sha256(Val(pdf_file').bytes))
        /\ vector_db # None) =>
          /\ ~HasOp(calls', "load") /\ ~HasOp(calls', "embed") /\ ~HasOp(calls', "summary")
          /\ UNCHANGED <<vector_db, chunks, summary, processing_time, uploaded_pdf_hash>>]_vars

C7_Witness ==
    /\ script = "Streamlit" /\ last = "process_pdf"
    /\ "Same file detected. Reusing existing index." \in {ui[i] : i \in 1..Len(ui)}

\* C9: the history has even length and alternates User, Bot, whatever
\* happened, failed questions included.
C9_MessagesAlternate ==
    /\ Len(messages) % 2 = 0
    /\ \A i \in 1..Len(messages) :
          messages[i].role = (IF i % 2 = 1 THEN "User" ELSE "Bot")

\* C8: generate_embeddings hands every chunk to the index once and in order,
\* in ceil(len/batch_size) batches of at most batch_size chunks; the first
\* batch creates the index and the later ones are added to it; a sleep
\* follows every batch; an empty list gives no batch and None.
C8_BatchesCoverChunks ==
    emb.pc = "done" =>
        LET n == Len(emb.chunks)
            b == emb.batch_size
            bs == emb.st.batches
        IN /\ Len(bs) = (n + b - 1) \div b
           /\ \A i \in 1..Len(bs) :
                 /\ Len(bs[i].chunks) >= 1 /\ Len(bs[i].chunks) <= b
                 /\ bs[i].created = (i = 1)
           /\ Flatten([i \in 1..Len(bs) |-> bs[i].chunks]) = emb.chunks
           /\ emb.st.sleeps = Len(bs)
           /\ (n = 0) <=> (emb.st.vector_db = None)
           /\ n > 0 => Val(emb.st.vector_db).docs = emb.chunks
           /\ emb.st.vector_db = generate_embeddings(emb.chunks, b)

C8_Witness ==
    /\ emb.pc = "done"
    /\ Len(emb.st.batches) = 3
    /\ Len(emb.chunks) % emb.batch_size # 0

\* C4 as stated: with expected words, the value is exactly
\* 100 * |common words| / |expected words|.
C4_AccuracyIsExactRatio ==
    (acc.pc = "done" /\ WordSet(acc.expected_text) # {}) =>
        Val(acc.result).hundredths * Cardinality(WordSet(acc.expected_text))
            = 10000 * Cardinality(WordSet(acc.answer) \cap WordSet(acc.expected_text))

\* C4 amended: compute_accuracy returns 0 with no expected word, and else
\* the ratio 100 * |common| / |expected| rounded to two decimals, within
\* 0..100, and 100 exactly when every expected word is in the answer; the
\* accuracy text follows the answer if and only if expected_text is not empty.
C4_AccuracyIsRoundedRatio ==
    acc.pc = "done" =>
        LET e == Cardinality(WordSet(acc.expected_text))
            c == Cardinality(WordSet(acc.answer) \cap WordSet(acc.expected_text))
            h == Val(acc.result).hundredths
            d == h * e - 10000 * c
            k == Len(acc.answer)
        IN /\ e = 0 => h = 0
           /\ e > 0 => (2 * d <= e /\ -2 * d <= e)
           /\ h >= 0 /\ h <= 10000
           /\ e > 0 => (h = 10000 <=> WordSet(acc.expected_text) \subseteq WordSet(acc.answer))
           /\ SubSeq(acc.content, 1, k) = acc.answer
           /\ IF acc.expected_text # << >>
              THEN /\ Len(acc.content) >= k + 5
                   /\ SubSeq(acc.content, k + 1, k + 3) = <<"\n", "\n", AccuracyLabel>>
                   /\ SubSeq(acc.content, k + 4, Len(acc.content) - 1)
                         = FormatAccuracy(Val(acc.result))
                   /\ acc.content[Len(acc.content)] = "%"
              ELSE acc.content = acc.answer

C4_Witness ==
    /\ acc.pc = "done"
    /\ Val(acc.result).hundredths = 6667
    /\ acc.content # acc.answer
====
